---------------------------- MODULE Spec2Model ----------------------------
(***************************************************************************)
(* A model of src/client.rs of actix-web-opentelemetry: the wrapper        *)
(* InstrumentedClientRequest, its five send operations, the private        *)
(* trace_request that starts a client span, injects the context into the   *)
(* request's headers through ActixClientCarrier, hands the request to the  *)
(* wrapped awc client and records the outcome on the span.                 *)
(*                                                                         *)
(* Text (String, &str) is a sequence of one-character strings, so that     *)
(* format!, replace and the header parsers are computed, not assumed.      *)
(* Option<T> is a sequence of length 0 (None) or 1 (Some).                 *)
(***************************************************************************)
EXTENDS Integers, Sequences, FiniteSets, TLC

(***************************************************************************)
(* Bounds of the model.                                                    *)
(***************************************************************************)
\* Traced requests issued on the client under Spec; ConcurrentSpec issues
\* one more, so that it has two or more in progress at once.
NumInvocations == 1

Invocations == 1..(NumInvocations + 1)

None == <<>>
Some(x) == <<x>>
IsSome(o) == Len(o) = 1
Unwrap(o) == o[1]

(***************************************************************************)
(* Text literals.                                                          *)
(***************************************************************************)
StrGET ==
    <<"G", "E", "T">>
StrPOST ==
    <<"P", "O", "S", "T">>
StrHttp ==
    <<"h", "t", "t", "p">>
StrSchemeSep ==
    <<":", "/", "/">>
StrSpace ==
    <<" ">>
StrLocalhost8080 ==
    <<"l", "o", "c", "a", "l", "h", "o", "s", "t", ":", "8", "0", "8", "0">>
StrItems ==
    <<"/", "i", "t", "e", "m", "s">>
StrQuery ==
    <<"i", "d", "=", "7">>
StrPeerIp ==
    <<"1", "0", ".", "0", ".", "0", ".", "5">>
StrPeerPort ==
    <<"8", "0">>
StrHttpSlash ==
    <<"H", "T", "T", "P", "/">>
StrTraceparent ==
    <<"t", "r", "a", "c", "e", "p", "a", "r", "e", "n", "t">>
StrTracestate ==
    <<"t", "r", "a", "c", "e", "s", "t", "a", "t", "e">>
StrBadKey ==
    <<"t", "r", "a", "c", "e", " ", "p", "a", "r", "e", "n", "t">>
StrBadValue ==
    <<"0", "0", "\n", "0", "1">>
StrAccept ==
    <<"a", "c", "c", "e", "p", "t">>
StrAcceptValue ==
    <<"t", "e", "x", "t", "/", "p", "l", "a", "i", "n">>
StrOldValue ==
    <<"0", "0", "-", "o", "l", "d", "-", "0", "1">>
StrBaggage ==
    <<"b", "a", "g", "g", "a", "g", "e">>
StrBaggageValue ==
    <<"u", "=", "1">>
StrTraceA ==
    <<"4", "b", "f", "9">>
StrSpanA ==
    <<"0", "0", "f", "0">>
StrConnectionRefused ==
    <<"c", "o", "n", "n", "e", "c", "t", "i", "o", "n", " ", "r", "e", "f", "u", "s", "e", "d">>
StrTimeout ==
    <<"T", "i", "m", "e", "o", "u", "t">>
StrSendOpen ==
    <<"S", "e", "n", "d", "(">>
StrCustomKind ==
    <<"C", "u", "s", "t", "o", "m", " ", "{", " ", "k", "i", "n", "d", ":", " ">>
StrCustomError ==
    <<",", " ", "e", "r", "r", "o", "r", ":", " ">>
StrCustomClose ==
    <<" ", "}">>
StrKindConnectionRefused ==
    <<"C", "o", "n", "n", "e", "c", "t", "i", "o", "n", "R", "e", "f", "u", "s", "e", "d">>
StrTimeoutDisplay ==
    <<"T", "i", "m", "e", "o", "u", "t", " ", "o", "u", "t", " ", "w", "h", "i", "l", "e", " ",
      "w", "a", "i", "t", "i", "n", "g", " ", "f", "o", "r", " ", "r", "e", "s", "p", "o", "n",
      "s", "e">>

(***************************************************************************)
(* The pending request: actix_web::client::ClientRequest, as far as this   *)
(* file reads it (get_method, get_uri, get_version, get_peer_addr) and     *)
(* writes it (headers_mut).  The header map is an ordered list of          *)
(* <<name, value>> entries; a name may have several entries.               *)
(***************************************************************************)
Uri(scheme, authority, path, query) ==
    [scheme |-> scheme, authority |-> authority, path |-> path, query |-> query]

SocketAddr(ip, port) == [ip |-> ip, port |-> port]

ClientRequest(method, uri, version, peer, headers) ==
    [method |-> method, uri |-> uri, version |-> version,
     peer_addr |-> peer, headers |-> headers]

\* GET http://localhost:8080/items, peer address known, no header set.
ReqAbsolute ==
    ClientRequest("GET", Uri(Some(StrHttp), Some(StrLocalhost8080), StrItems, None),
                  "HTTP_11", Some(SocketAddr(StrPeerIp, StrPeerPort)), <<>>)

\* GET /items?id=7: a URI with neither scheme nor authority; the caller has
\* already put a traceparent header and an accept header on the request.
ReqRelative ==
    ClientRequest("GET", Uri(None, None, StrItems, Some(StrQuery)),
                  "HTTP_11", None,
                  << <<StrTraceparent, StrOldValue>>, <<StrAccept, StrAcceptValue>> >>)

\* POST localhost:8080: authority-form, no scheme and an empty path.
ReqAuthority ==
    ClientRequest("POST", Uri(None, Some(StrLocalhost8080), <<>>, None),
                  "HTTP_2", None, <<>>)

Requests == {ReqAbsolute, ReqRelative, ReqAuthority}

(***************************************************************************)
(* opentelemetry::Context, as far as this file uses it: the span it        *)
(* carries.  A context made by with_span carries a span of the backend     *)
(* (local |-> its index in spans); a caller's context carries a remote     *)
(* parent (trace and span id) or nothing.  The other entries of a context  *)
(* are its baggage, which with_span keeps.                                 *)
(***************************************************************************)
CxEmpty == [trace |-> None, span_id |-> None, local |-> 0, baggage |-> None]
CxA ==
    [trace |-> Some(StrTraceA), span_id |-> Some(StrSpanA), local |-> 0,
     baggage |-> Some(StrBaggageValue)]

Contexts == {CxEmpty, CxA}


(***************************************************************************)
(* Formatting, as trace_request does it.                                   *)
(***************************************************************************)
\* Display of http::Method, the first argument of format! at line 159.
MethodDisplay(m) ==
    CASE m = "GET" -> StrGET
      [] m = "POST" -> StrPOST

\* crate::util::http_method_str: the method token.
http_method_str(m) ==
    CASE m = "GET" -> StrGET
      [] m = "POST" -> StrPOST

\* Debug of http::Version: format!("{:?}", version).
VersionDebug(v) ==
    CASE v = "HTTP_11" -> StrHttpSlash \o <<"1", ".", "1">>
      [] v = "HTTP_2" -> StrHttpSlash \o <<"2", ".", "0">>

StartsWith(s, pat) == Len(s) >= Len(pat) /\ SubSeq(s, 1, Len(pat)) = pat

\* str::replace: every non-overlapping match of pat, left to right.
RECURSIVE Replace(_, _, _)
Replace(s, pat, rep) ==
    IF s = <<>> THEN <<>>
    ELSE IF StartsWith(s, pat)
         THEN rep \o Replace(SubSeq(s, Len(pat) + 1, Len(s)), pat, rep)
         ELSE <<Head(s)>> \o Replace(Tail(s), pat, rep)

\* Uri::path(): "/" for an empty path of a URI that has a scheme, "" for
\* an empty path of one that has none.
UriPath(uri) ==
    IF uri.path # <<>> THEN uri.path
    ELSE IF IsSome(uri.scheme) THEN <<"/">> ELSE <<>>

\* Display of http::Uri: get_uri().to_string().
UriToString(uri) ==
    (IF IsSome(uri.scheme) THEN Unwrap(uri.scheme) \o StrSchemeSep ELSE <<>>)
    \o (IF IsSome(uri.authority) THEN Unwrap(uri.authority) ELSE <<>>)
    \o UriPath(uri)
    \o (IF IsSome(uri.query) THEN <<"?">> \o Unwrap(uri.query) ELSE <<>>)

\* Display of std::net::SocketAddr: peer_addr.to_string().
SocketAddrToString(a) == a.ip \o <<":">> \o a.port

StringValue(s) == [type |-> "string", v |-> s]
I64Value(n) == [type |-> "i64", v |-> n]

\* An attribute list that always has a net.peer.ip entry, with an empty
\* text when the peer address is unknown.
AttributesAlwaysPeer(req) ==
    << <<"http.method", StringValue(http_method_str(req.method))>>,
       <<"http.url", StringValue(UriToString(req.uri))>>,
       <<"http.flavor",
         StringValue(Replace(VersionDebug(req.version), StrHttpSlash, <<>>))>>,
       <<"net.peer.ip",
         StringValue(IF IsSome(req.peer_addr)
                     THEN SocketAddrToString(Unwrap(req.peer_addr)) ELSE <<>>)>> >>

\* The attribute list built at lines 146-154.
Attributes(req) ==
    << <<"http.method", StringValue(http_method_str(req.method))>>,
       <<"http.url", StringValue(UriToString(req.uri))>>,
       <<"http.flavor",
         StringValue(Replace(VersionDebug(req.version), StrHttpSlash, <<>>))>> >>
    \o (IF IsSome(req.peer_addr)
        THEN << <<"net.peer.ip",
                  StringValue(SocketAddrToString(Unwrap(req.peer_addr)))>> >>
        ELSE <<>>)

\* A span name that always writes the "://" separator.
SpanNameAlwaysSep(req) ==
    MethodDisplay(req.method) \o StrSpace
    \o (IF IsSome(req.uri.scheme) THEN Unwrap(req.uri.scheme) ELSE <<>>)
    \o StrSchemeSep
    \o (IF IsSome(req.uri.authority) THEN Unwrap(req.uri.authority) ELSE <<>>)
    \o UriPath(req.uri)

\* The span name: format!("{} {}{}{}", method, scheme + "://" or "",
\* authority or "", path).
SpanName(req) ==
    MethodDisplay(req.method) \o StrSpace
    \o (IF IsSome(req.uri.scheme)
        THEN Unwrap(req.uri.scheme) \o StrSchemeSep ELSE <<>>)
    \o (IF IsSome(req.uri.authority) THEN Unwrap(req.uri.authority) ELSE <<>>)
    \o UriPath(req.uri)

(***************************************************************************)
(* The span backend: every span started, with the calls made on it.        *)
(***************************************************************************)
Digit(n) == <<"0", "1", "2", "3", "4", "5", "6", "7", "8", "9">>[n + 1]

\* The ids the tracer's generator gives the n-th span.
NewTraceId(n) == <<"a", "0", "0", Digit(n)>>
NewSpanId(n) == <<"b", "0", "0", Digit(n)>>

\* SpanBuilder::start: the new span, n-th of the backend, under parent.
StartSpan(n, name, kind, attributes, parent) ==
    [name |-> name, kind |-> kind, attributes |-> attributes,
     parent |-> parent,
     trace |-> IF IsSome(parent.trace) THEN Unwrap(parent.trace) ELSE NewTraceId(n),
     span_id |-> NewSpanId(n),
     status |-> [code |-> "Unset", description |-> <<>>],
     ended |-> 0, ops |-> <<>>]

SetAttribute(sp, key, value) ==
    [sp EXCEPT !.attributes = Append(@, <<key, value>>),
               !.ops = Append(@, "set_attribute")]

SetStatus(sp, code, description) ==
    [sp EXCEPT !.status = [code |-> code, description |-> description],
               !.ops = Append(@, "set_status")]

End(sp) == [sp EXCEPT !.ended = @ + 1, !.ops = Append(@, "end")]

\* A with_span whose context still names the span it had before.
WithSpanDetached(cx, n, sp) == [cx EXCEPT !.local = n]

\* Context::with_span: cx with the span (the n-th of the backend) as its span.
WithSpan(cx, n, sp) ==
    [cx EXCEPT !.trace = Some(sp.trace), !.span_id = Some(sp.span_id), !.local = n]

(***************************************************************************)
(* ActixClientCarrier: the Injector over the request's headers.            *)
(***************************************************************************)
UpperChars ==
    <<"A", "B", "C", "D", "E", "F", "G", "H", "I", "J", "K", "L", "M",
      "N", "O", "P", "Q", "R", "S", "T", "U", "V", "W", "X", "Y", "Z">>
LowerChars ==
    <<"a", "b", "c", "d", "e", "f", "g", "h", "i", "j", "k", "l", "m",
      "n", "o", "p", "q", "r", "s", "t", "u", "v", "w", "x", "y", "z">>
TokenChars ==
    {LowerChars[k] : k \in 1..26}
    \cup {"0", "1", "2", "3", "4", "5", "6", "7", "8", "9"}
    \cup {"!", "#", "$", "%", "&", "*", "+", "-", ".", "^", "_", "|", "~"}

ToLower(c) ==
    IF \E k \in 1..26 : UpperChars[k] = c
    THEN LowerChars[CHOOSE k \in 1..26 : UpperChars[k] = c]
    ELSE c

\* HeaderName::from_str: the name in lower case, or no name (an error) when
\* it is empty or holds a character that is no token character.
HeaderNameFromStr(key) ==
    LET lower == [k \in 1..Len(key) |-> ToLower(key[k])]
    IN IF key # <<>> /\ \A k \in 1..Len(key) : lower[k] \in TokenChars
       THEN Some(lower) ELSE None

\* Characters no header value may hold, as far as the model writes any.
ValueControlChars == {"\n", "\r", "\f"}

\* HeaderValue::from_str: the value, or an error when it holds a character
\* that is not visible ASCII.
HeaderValueFromStr(value) ==
    IF \A k \in 1..Len(value) : value[k] \notin ValueControlChars
    THEN Some(value) ELSE None

\* An insert that adds a value and keeps the values the name has.
HeaderInsertAppending(headers, name, value) == Append(headers, <<name, value>>)

\* An insert that clears the map first.
HeaderInsertClearing(headers, name, value) == << <<name, value>> >>

\* HeaderMap::insert: the entries of that name are replaced by one entry.
HeaderInsert(headers, name, value) ==
    SelectSeq(headers, LAMBDA e : e[1] # name) \o << <<name, value>> >>

\* A set that leaves out a pair that is no header instead of panicking.
ActixClientCarrier_setLenient(request, key, value) ==
    LET header_name == HeaderNameFromStr(key)
        header_value == HeaderValueFromStr(value)
    IN [panicked |-> FALSE,
        request |-> IF ~IsSome(header_name) \/ ~IsSome(header_value)
                    THEN request
                    ELSE [request EXCEPT !.headers =
                             HeaderInsert(@, Unwrap(header_name), Unwrap(header_value))]]

\* ActixClientCarrier::set.  Each expect panics on an error.
ActixClientCarrier_set(request, key, value) ==
    LET header_name == HeaderNameFromStr(key)
        header_value == HeaderValueFromStr(value)
    IN IF ~IsSome(header_name) \/ ~IsSome(header_value)
       THEN [panicked |-> TRUE, request |-> request]
       ELSE [panicked |-> FALSE,
             request |-> [request EXCEPT !.headers =
                 HeaderInsert(@, Unwrap(header_name), Unwrap(header_value))]]

(***************************************************************************)
(* The global text map propagator: what inject_context writes for a        *)
(* context.  Noop is opentelemetry's default; TraceContext writes the      *)
(* span of the context (traceparent, tracestate) and its baggage; Broken   *)
(* is a codec that emits a key that is no header name, BrokenValue one     *)
(* that emits a value that is no header value.                             *)
(***************************************************************************)
Propagators == {"Noop", "TraceContext", "Broken", "BrokenValue"}

TraceparentValue(cx) ==
    <<"0", "0", "-">> \o Unwrap(cx.trace) \o <<"-">> \o Unwrap(cx.span_id)
    \o <<"-", "0", "1">>

PropagatorPairs(p, cx) ==
    CASE p = "Noop" -> <<>>
      [] p = "TraceContext" ->
            (IF IsSome(cx.span_id)
             THEN << <<StrTraceparent, TraceparentValue(cx)>>, <<StrTracestate, <<>> >> >>
             ELSE <<>>)
            \o (IF IsSome(cx.baggage)
                THEN << <<StrBaggage, Unwrap(cx.baggage)>> >> ELSE <<>>)
      [] p = "Broken" ->
            << <<StrTraceparent, TraceparentValue(cx)>>,
               <<StrBadKey, TraceparentValue(cx)>> >>
      [] p = "BrokenValue" ->
            << <<StrTracestate, <<>> >>, <<StrTraceparent, StrBadValue>> >>

\* An injection that writes nothing.
InjectContextSkipped(pairs, request) ==
    [panicked |-> FALSE, request |-> request, sets |-> 0]

\* injector.inject_context(&cx, &mut ActixClientCarrier::new(&mut request)):
\* one set per pair, in order, until one panics.  sets counts the calls.
RECURSIVE InjectContext(_, _)
InjectContext(pairs, request) ==
    IF pairs = <<>>
    THEN [panicked |-> FALSE, request |-> request, sets |-> 0]
    ELSE LET r == ActixClientCarrier_set(request, Head(pairs)[1], Head(pairs)[2])
         IN IF r.panicked
            THEN [panicked |-> TRUE, request |-> r.request, sets |-> 1]
            ELSE LET rest == InjectContext(Tail(pairs), r.request)
                 IN [rest EXCEPT !.sets = @ + 1]

(***************************************************************************)
(* The wrapped client's results: AwcResult.                                *)
(***************************************************************************)
Ok(status) == [ok |-> TRUE, status |-> status]
Err(e) == [ok |-> FALSE, err |-> e]

\* http::StatusCode values the wrapped client answers with.
StatusCodes == {200, 404}

\* SendRequestError values: the variant and, where it has one, its field.
\* Send holds io::Error::new(ErrorKind::ConnectionRefused, "connection refused").
ErrTimeout == [variant |-> "Timeout"]
ErrSendRefused ==
    [variant |-> "Send", kind |-> "ConnectionRefused", error |-> StrConnectionRefused]

SendRequestErrors == {ErrTimeout, ErrSendRefused}

Results == {Ok(s) : s \in StatusCodes} \cup {Err(e) : e \in SendRequestErrors}

\* Debug of a str: the text in double quotes (none of the texts of the
\* model holds a character that Debug escapes).
StrDebug(s) == <<"\"">> \o s \o <<"\"">>

\* Display of a SendRequestError: Timeout has its own text, Send shows the
\* io::Error, whose Display is its message.
DisplayFmt(e) ==
    CASE e.variant = "Timeout" -> StrTimeoutDisplay
      [] e.variant = "Send" -> e.error

\* Debug of a SendRequestError (derived): format!("{:?}", err).
DebugFmt(e) ==
    CASE e.variant = "Timeout" -> StrTimeout
      [] e.variant = "Send" ->
            StrSendOpen \o StrCustomKind \o StrKindConnectionRefused
            \o StrCustomError \o StrDebug(e.error) \o StrCustomClose \o <<")">>

(***************************************************************************)
(* The outcome recorders.                                                  *)
(***************************************************************************)
\* A record_response that marks a 4xx or 5xx answer as an error.
record_responseErrorOn4xx(sp, response) ==
    LET with == SetAttribute(sp, "http.status_code", I64Value(response.status))
    IN End(IF response.status >= 400
           THEN SetStatus(with, "Error", <<>>) ELSE with)

\* A record_response that ends the span before it records the status code.
record_responseAfterEnd(sp, response) ==
    SetAttribute(End(sp), "http.status_code", I64Value(response.status))

\* record_response: the status code as an i64 attribute, then end.
\* as_u16() as i64 widens, so the number is kept.
record_response(sp, response) ==
    End(SetAttribute(sp, "http.status_code", I64Value(response.status)))

\* A record_err that describes the error by its Display text.
record_errDisplay(sp, err) ==
    End(SetStatus(sp, "Error", DisplayFmt(err)))

\* A record_err that does not end the span.
record_errNoEnd(sp, err) ==
    SetStatus(sp, "Error", DebugFmt(err))

\* A record_err that also records a status code.
record_errWithCode(sp, err) ==
    End(SetStatus(SetAttribute(sp, "http.status_code", I64Value(0)),
                  "Error", DebugFmt(err)))

\* record_err: status Error with the Debug text of the error, then end.
record_err(sp, err) ==
    End(SetStatus(sp, "Error", DebugFmt(err)))

(***************************************************************************)
(* The state.                                                              *)
(*   current     the ambient context, Context::current()                   *)
(*   propagator  the global text map propagator                            *)
(*   spans       the backend: the spans started, in order                  *)
(* and for each traced request i on the client                             *)
(*   pc[i]       idle (no wrapper yet), wrapped, sent (suspended at the    *)
(*               await of line 184), closed (returned), cancelled (its     *)
(*               future dropped while suspended), panicked                 *)
(*   request[i]  InstrumentedClientRequest.request, until it is moved      *)
(*   cx[i]       InstrumentedClientRequest.cx, then the local cx           *)
(*   span[i]     the span it started, as an index of spans (0: none)       *)
(*   sent[i]     the request as handed to the wrapped client, and by       *)
(*               which send operation, while the client holds it           *)
(*   produced[i] the result the wrapped client's future yielded            *)
(*   returned[i] the result the send operation returned to its caller      *)
(*   log[i]      what the invocation did, in program order                 *)
(***************************************************************************)
VARIABLES current, propagator, spans, pc, request, cx, span, sent,
          produced, returned, log

vars == <<current, propagator, spans, pc, request, cx, span, sent,
          produced, returned, log>>

Init ==
    /\ current \in Contexts
    /\ propagator \in Propagators
    /\ spans = <<>>
    /\ pc = [i \in Invocations |-> "idle"]
    /\ request = [i \in Invocations |-> None]
    /\ cx = [i \in Invocations |-> None]
    /\ span = [i \in Invocations |-> 0]
    /\ sent = [i \in Invocations |-> None]
    /\ produced = [i \in Invocations |-> None]
    /\ returned = [i \in Invocations |-> None]
    /\ log = [i \in Invocations |-> <<>>]

\* Context::attach: another context becomes the ambient one.
Attach(c) ==
    /\ c # current
    /\ current' = c
    /\ UNCHANGED <<propagator, spans, pc, request, cx, span, sent,
                   produced, returned, log>>

\* A wrapping that injects the given context into the headers at once.
trace_request_with_contextEager(i, req, c) ==
    /\ pc[i] = "idle"
    /\ pc' = [pc EXCEPT ![i] = "wrapped"]
    /\ request' = [request EXCEPT ![i] =
                       Some(InjectContext(PropagatorPairs("TraceContext", c), req).request)]
    /\ cx' = [cx EXCEPT ![i] = Some(c)]
    /\ UNCHANGED <<current, propagator, spans, span, sent, produced, returned, log>>

\* impl ClientExt for ClientRequest: the wrapper stores cx and the request.
trace_request_with_context(i, req, c) ==
    /\ pc[i] = "idle"
    /\ pc' = [pc EXCEPT ![i] = "wrapped"]
    /\ request' = [request EXCEPT ![i] = Some(req)]
    /\ cx' = [cx EXCEPT ![i] = Some(c)]
    /\ UNCHANGED <<current, propagator, spans, span, sent, produced, returned, log>>

\* ClientExt::trace_request_with_context, called with any context.
TraceRequestWithContext(i) ==
    \E req \in Requests, c \in Contexts : trace_request_with_context(i, req, c)

\* ClientExt::trace_request: the ambient context is the one stored.
TraceRequest(i) ==
    \E req \in Requests : trace_request_with_context(i, req, current)

\* What trace_request does up to its await, in order: the span is started,
\* the propagator calls set, and f is called unless a set panicked.
PollEvents(sets, panicked) ==
    <<"start">> \o [k \in 1..sets |-> "set"]
    \o (IF panicked THEN <<"panic">> ELSE <<"send">>)

\* The span started last, whichever request started it.
CxSpanLatest(c) == Len(spans)

\* cx.span(): the span the context carries.
CxSpan(c) == c.local

\* InstrumentedClientRequest::trace_request up to its await (the first poll
\* of the future): lines 145-181.  f names the send operation of the
\* wrapped request that the closure calls.
trace_request(i, f) ==
    /\ pc[i] = "wrapped"
    /\ LET req == Unwrap(request[i])
           n == Len(spans) + 1
           sp == StartSpan(n, SpanName(req), "Client", Attributes(req), current)
           child == WithSpan(Unwrap(cx[i]), n, sp)
           inj == InjectContext(PropagatorPairs(propagator, child), req)
       IN /\ spans' = Append(spans, sp)
          /\ span' = [span EXCEPT ![i] = n]
          /\ log' = [log EXCEPT ![i] = @ \o PollEvents(inj.sets, inj.panicked)]
          /\ request' = [request EXCEPT ![i] = None]
          /\ IF inj.panicked
             THEN /\ pc' = [pc EXCEPT ![i] = "panicked"]
                  /\ cx' = [cx EXCEPT ![i] = None]
                  /\ sent' = sent
             ELSE /\ pc' = [pc EXCEPT ![i] = "sent"]
                  /\ cx' = [cx EXCEPT ![i] = Some(child)]
                  /\ sent' = [sent EXCEPT ![i] =
                                 Some([request |-> inj.request, f |-> f])]
    /\ UNCHANGED <<current, propagator, produced, returned>>

\* A send_stream that starts the span and hands the request over without
\* the injection.
send_streamUninjected(i) ==
    /\ pc[i] = "wrapped"
    /\ LET req == Unwrap(request[i])
           n == Len(spans) + 1
           sp == StartSpan(n, SpanName(req), "Client", Attributes(req), current)
       IN /\ spans' = Append(spans, sp)
          /\ span' = [span EXCEPT ![i] = n]
          /\ log' = [log EXCEPT ![i] = @ \o <<"start", "send">>]
          /\ cx' = [cx EXCEPT ![i] = Some(WithSpan(Unwrap(cx[i]), n, sp))]
          /\ sent' = [sent EXCEPT ![i] = Some([request |-> req, f |-> "send_stream"])]
    /\ request' = [request EXCEPT ![i] = None]
    /\ pc' = [pc EXCEPT ![i] = "sent"]
    /\ UNCHANGED <<current, propagator, produced, returned>>

send(i) == trace_request(i, "send")
send_body(i) == trace_request(i, "send_body")
send_form(i) == trace_request(i, "send_form")
send_json(i) == trace_request(i, "send_json")
send_stream(i) == trace_request(i, "send_stream")

\* An output that turns an error into a response.
InspectOutputSwallowed(res) == IF res.ok THEN res ELSE Ok(500)

\* The output of f(request).inspect_ok(..).inspect_err(..): that of f.
InspectOutput(res) == res

\* A completion that sends the request again when the send failed.
SendCompletesRetry(i) ==
    \E res \in Results :
        /\ pc[i] = "sent"
        /\ pc' = [pc EXCEPT ![i] = IF res.ok THEN "closed" ELSE "sent"]
        /\ spans' = [spans EXCEPT ![CxSpan(Unwrap(cx[i]))] =
                        IF res.ok THEN record_response(@, res) ELSE @]
        /\ log' = [log EXCEPT ![i] =
                      @ \o (IF res.ok THEN <<"record_response", "return">>
                                      ELSE <<"send">>)]
        /\ produced' = [produced EXCEPT ![i] = IF res.ok THEN Some(res) ELSE @]
        /\ returned' = [returned EXCEPT ![i] = IF res.ok THEN Some(res) ELSE @]
        /\ sent' = [sent EXCEPT ![i] = IF res.ok THEN None ELSE @]
        /\ cx' = [cx EXCEPT ![i] = IF res.ok THEN None ELSE @]
        /\ UNCHANGED <<current, propagator, request, span>>

\* The wrapped client's future completes with res and trace_request goes on
\* after its await: inspect_ok or inspect_err records on cx.span(), and the
\* result is returned.  Lines 181-184.
SendCompletes(i) ==
    \E res \in Results :
        /\ pc[i] = "sent"
        /\ pc' = [pc EXCEPT ![i] = "closed"]
        /\ spans' = [spans EXCEPT ![CxSpan(Unwrap(cx[i]))] =
                        IF res.ok THEN record_response(@, res)
                                  ELSE record_err(@, res.err)]
        /\ log' = [log EXCEPT ![i] =
                      @ \o <<IF res.ok THEN "record_response" ELSE "record_err",
                             "return">>]
        /\ produced' = [produced EXCEPT ![i] = Some(res)]
        /\ returned' = [returned EXCEPT ![i] = Some(InspectOutput(res))]
        /\ sent' = [sent EXCEPT ![i] = None]
        /\ cx' = [cx EXCEPT ![i] = None]
        /\ UNCHANGED <<current, propagator, request, span>>

\* A drop that ends the span, as a guard would.
OnDropEnds(sp) == End(sp)

\* What dropping the suspended future does to the span: nothing, the file
\* has no Drop implementation and no guard.
OnDrop(sp) == sp

\* The caller drops the future of the send operation while it is suspended
\* at the await of line 184.
Cancel(i) ==
    /\ pc[i] = "sent"
    /\ pc' = [pc EXCEPT ![i] = "cancelled"]
    /\ spans' = [spans EXCEPT ![CxSpan(Unwrap(cx[i]))] = OnDrop(@)]
    /\ sent' = [sent EXCEPT ![i] = None]
    /\ cx' = [cx EXCEPT ![i] = None]
    /\ UNCHANGED <<current, propagator, request, span, produced, returned, log>>

\* Every step of traced request i.
Step(i) ==
    \/ TraceRequest(i)
    \/ TraceRequestWithContext(i)
    \/ send(i)
    \/ send_body(i)
    \/ send_form(i)
    \/ send_json(i)
    \/ send_stream(i)
    \/ SendCompletes(i)
    \/ Cancel(i)

Next ==
    \/ \E c \in Contexts : Attach(c)
    \/ \E i \in 1..NumInvocations : Step(i)

Spec == Init /\ [][Next]_vars

ConcurrentNext ==
    \/ \E c \in Contexts : Attach(c)
    \/ \E i \in Invocations : Step(i)

ConcurrentSpec == Init /\ [][ConcurrentNext]_vars

(***************************************************************************)
(* Properties.                                                             *)
(***************************************************************************)
StrSendRefusedDebug ==
    <<"S", "e", "n", "d", "(", "C", "u", "s", "t", "o", "m", " ", "{", " ", "k", "i", "n",
      "d", ":", " ", "C", "o", "n", "n", "e", "c", "t", "i", "o", "n", "R", "e", "f", "u",
      "s", "e", "d", ",", " ", "e", "r", "r", "o", "r", ":", " ", "\"", "c", "o", "n", "n",
      "e", "c", "t", "i", "o", "n", " ", "r", "e", "f", "u", "s", "e", "d", "\"", " ", "}",
      ")">>
StrNameAbsolute ==
    <<"G", "E", "T", " ", "h", "t", "t", "p", ":", "/", "/", "l", "o", "c", "a", "l", "h",
      "o", "s", "t", ":", "8", "0", "8", "0", "/", "i", "t", "e", "m", "s">>
StrNameRelative ==
    <<"G", "E", "T", " ", "/", "i", "t", "e", "m", "s">>

Count(seq, x) == Cardinality({k \in DOMAIN seq : seq[k] = x})

\* The span request i started, once it has started one.
Started(i) == span[i] \in DOMAIN spans
OwnSpan(i) == spans[span[i]]

RECURSIVE SumEnded(_)
SumEnded(ss) == IF ss = <<>> THEN 0 ELSE Head(ss).ended + SumEnded(Tail(ss))

StatusCodeAttributes(sp) ==
    {k \in DOMAIN sp.attributes : sp.attributes[k][1] = "http.status_code"}

\* C1: once the wrapped send of a traced request has completed, with a
\* response or with an error, that invocation has started exactly one span
\* and ended exactly one: the backend holds one span per invocation that
\* got as far as starting one, and one end call per completed invocation,
\* made on the span that invocation started.
C1_OneSpanStartedOneEnded ==
    /\ Len(spans) = Cardinality({i \in Invocations : pc[i] \notin {"idle", "wrapped"}})
    /\ SumEnded(spans) = Cardinality({i \in Invocations : pc[i] = "closed"})
    /\ \A i \in Invocations :
          pc[i] = "closed" =>
             /\ Count(log[i], "start") = 1
             /\ Started(i)
             /\ OwnSpan(i).ended = 1
             /\ Count(OwnSpan(i).ops, "end") = 1

\* A traced request whose send failed has returned.
C1_Witness ==
    \E i \in Invocations :
        pc[i] = "closed" /\ ~Unwrap(produced[i]).ok /\ OwnSpan(i).ended = 1

\* The headers of a request as a set of entries.
HeaderEntries(req) == {req.headers[k] : k \in DOMAIN req.headers}

\* C2: every header write of the injection comes before the wrapped
\* client's send is invoked: in the invocation's order of events no set
\* follows the send, the send is invoked at most once, and the request the
\* client was handed already holds every pair the propagator writes for
\* the invocation's context.
C2_InjectionBeforeSend ==
    \A i \in Invocations :
        /\ Count(log[i], "send") <= 1
        /\ \A k, m \in DOMAIN log[i] :
              (log[i][k] = "set" /\ log[i][m] = "send") => k < m
        /\ pc[i] = "sent" =>
              LET pairs == PropagatorPairs(propagator, Unwrap(cx[i]))
              IN /\ Count(log[i], "send") = 1
                 /\ Count(log[i], "set") = Len(pairs)
                 /\ \A k \in DOMAIN pairs :
                       pairs[k] \in HeaderEntries(Unwrap(sent[i]).request)

\* A request is at the wrapped client after two or more header writes.
C2_Witness ==
    \E i \in Invocations :
        /\ pc[i] = "sent"
        /\ Count(log[i], "set") >= 2
        /\ \E e \in HeaderEntries(Unwrap(sent[i]).request) : e[1] = StrTraceparent

\* The outcome records made on a span before position e of its calls.
RecordsBefore(sp, e) ==
    {k \in 1..(e - 1) : sp.ops[k] \in {"set_attribute", "set_status"}}

\* C3: a span that has been ended had exactly one outcome record before its
\* end, the status code attribute of record_response or the error status of
\* record_err, never both, never neither, none twice and none afterwards.
C3_ExactlyOneOutcomeRecord ==
    \A n \in DOMAIN spans :
        LET sp == spans[n]
        IN sp.ended >= 1 =>
              LET e == CHOOSE k \in DOMAIN sp.ops :
                           sp.ops[k] = "end" /\ \A m \in 1..(k - 1) : sp.ops[m] # "end"
              IN /\ Cardinality(RecordsBefore(sp, e)) = 1
                 /\ Cardinality(RecordsBefore(sp, Len(sp.ops) + 1)) = 1
                 /\ Cardinality(StatusCodeAttributes(sp)) = 1
                       <=> sp.status.code # "Error"
                 /\ Cardinality(StatusCodeAttributes(sp)) <= 1

\* A span has been ended after an outcome record.
C3_Witness ==
    \E n \in DOMAIN spans :
        spans[n].ended = 1 /\ spans[n].ops = <<"set_status", "end">>

\* The invocations whose wrapped send failed and that have returned.
Failed(i) == pc[i] = "closed" /\ ~Unwrap(produced[i]).ok

\* C4 as stated: after a failed send the span's status is Error with the
\* description equal to the text that describes the error (its Display,
\* "connection refused" for the refused connection), set before the end,
\* with no http.status_code attribute.
C4_DescriptionIsErrorText ==
    \A i \in Invocations :
        Failed(i) =>
            /\ OwnSpan(i).status =
                  [code |-> "Error",
                   description |-> DisplayFmt(Unwrap(produced[i]).err)]
            /\ OwnSpan(i).ops = <<"set_status", "end">>
            /\ StatusCodeAttributes(OwnSpan(i)) = {}

\* C4, amended: after a failed send the span's status is Error with the
\* description equal to the Debug text of the error, "Timeout" for a
\* timeout and Send(Custom { kind: ConnectionRefused, error: "connection
\* refused" }) for the refused connection; the status is set before the
\* span is ended, once, and no http.status_code attribute is added.
C4_DescriptionIsDebugText ==
    \A i \in Invocations :
        Failed(i) =>
            /\ OwnSpan(i).status =
                  [code |-> "Error",
                   description |->
                       IF Unwrap(produced[i]).err = ErrSendRefused
                       THEN StrSendRefusedDebug ELSE StrTimeout]
            /\ OwnSpan(i).ops = <<"set_status", "end">>
            /\ OwnSpan(i).ended = 1
            /\ StatusCodeAttributes(OwnSpan(i)) = {}

\* The send failed with the refused connection and the span has its status.
C4_Witness ==
    \E i \in Invocations :
        /\ Failed(i)
        /\ Unwrap(produced[i]).err = ErrSendRefused
        /\ OwnSpan(i).status.code = "Error"

\* C5: after a response with status code s, 404 as any other, the span has
\* the attribute http.status_code = s (an i64), added once, after the
\* attributes it was started with and before its end; the span is ended
\* and no status was set on it.
C5_StatusCodeRecorded ==
    \A i \in Invocations :
        (pc[i] = "closed" /\ Unwrap(produced[i]).ok) =>
            LET sp == OwnSpan(i)
                s == Unwrap(produced[i]).status
            IN /\ sp.attributes[Len(sp.attributes)]
                     = <<"http.status_code", [type |-> "i64", v |-> s]>>
               /\ StatusCodeAttributes(sp) = {Len(sp.attributes)}
               /\ sp.ops = <<"set_attribute", "end">>
               /\ sp.ended = 1
               /\ sp.status = [code |-> "Unset", description |-> <<>>]

\* A 404 response has been recorded.
C5_Witness ==
    \E i \in Invocations :
        /\ pc[i] = "closed"
        /\ produced[i] = Some(Ok(404))
        /\ <<"http.status_code", I64Value(404)>> \in
              {OwnSpan(i).attributes[k] : k \in DOMAIN OwnSpan(i).attributes}

\* C6: what a send operation returns is what the wrapped client's send
\* produced, response or error alike, and nothing is returned before the
\* wrapped send has completed.
C6_ResultPassedThrough ==
    \A i \in Invocations :
        /\ pc[i] = "closed" => (IsSome(produced[i]) /\ returned[i] = produced[i])
        /\ pc[i] # "closed" => returned[i] = None

\* An error of the wrapped client has been returned to the caller.
C6_Witness ==
    \E i \in Invocations :
        pc[i] = "closed" /\ returned[i] = Some(Err(ErrTimeout))

\* C7 as stated: an invocation that started a span and is over, because it
\* returned or because its future was dropped, has ended that span.
C7_EveryStartedSpanEnded ==
    \A i \in Invocations :
        (Started(i) /\ pc[i] \in {"closed", "cancelled"}) => OwnSpan(i).ended >= 1

\* C8: the span of an invocation that was cancelled while suspended at the
\* wrapped send is not ended and has no outcome: no call was made on it, it
\* has no http.status_code attribute and no status, and the invocation
\* recorded and returned nothing.
C8_CancelledSpanLeftOpen ==
    \A i \in Invocations :
        pc[i] = "cancelled" =>
            /\ Started(i)
            /\ OwnSpan(i).ended = 0
            /\ OwnSpan(i).ops = <<>>
            /\ OwnSpan(i).status.code = "Unset"
            /\ StatusCodeAttributes(OwnSpan(i)) = {}
            /\ log[i][Len(log[i])] = "send"
            /\ returned[i] = None

\* A traced request has been cancelled at its send.
C8_Witness ==
    \E i \in Invocations :
        pc[i] = "cancelled" /\ Started(i) /\ Count(log[i], "send") = 1

\* All that request i holds.
Local(i) ==
    <<pc[i], request[i], cx[i], span[i], sent[i], produced[i], returned[i], log[i]>>
OwnSpanOrNone(i) == IF Started(i) THEN Some(OwnSpan(i)) ELSE None

\* The span id the propagator wrote into the request the client holds.
InjectedSpanIds(i) ==
    {e[2] : e \in {h \in HeaderEntries(Unwrap(sent[i]).request) :
                       h[1] = StrTraceparent /\ h[2] # StrOldValue}}

\* What a step of one traced request leaves alone: every other request and
\* the span of every other request.
C9_StepIsLocal ==
    \A i, j \in Invocations :
        (i # j /\ Local(i)' # Local(i)) =>
            (Local(j)' = Local(j) /\ OwnSpanOrNone(j)' = OwnSpanOrNone(j))

\* What each traced request has of its own, whatever the others did.
C9_OwnSpanOwnOutcome ==
    \A i \in Invocations :
        /\ \A j \in Invocations : (i # j /\ Started(i)) => span[i] # span[j]
        /\ pc[i] = "sent" =>
              /\ Unwrap(cx[i]).local = span[i]
              /\ \A v \in InjectedSpanIds(i) :
                    v = <<"0", "0", "-">> \o OwnSpan(i).trace \o <<"-">>
                        \o NewSpanId(span[i]) \o <<"-", "0", "1">>
        /\ pc[i] = "closed" =>
              IF Unwrap(produced[i]).ok
              THEN /\ StatusCodeAttributes(OwnSpan(i)) # {}
                   /\ \A k \in StatusCodeAttributes(OwnSpan(i)) :
                         OwnSpan(i).attributes[k][2].v = Unwrap(produced[i]).status
              ELSE OwnSpan(i).status.code = "Error"
        /\ pc[i] \in {"sent", "cancelled", "panicked"} => OwnSpan(i).ops = <<>>

\* C9: traced requests interleaved on one client are independent: a step
\* of one changes neither another request nor another request's span, each
\* has a span of its own, the request it hands to the client carries the
\* id of its own span, and its span records the outcome of its own send.
C9_Independent == []C9_OwnSpanOwnOutcome /\ [][C9_StepIsLocal]_vars

\* Two traced requests have completed, each with its own span, one with a
\* response and the other with an error.
C9_Witness ==
    \E i, j \in Invocations :
        /\ i # j
        /\ pc[i] = "closed" /\ pc[j] = "closed"
        /\ span[i] > span[j]
        /\ Unwrap(produced[i]).ok /\ ~Unwrap(produced[j]).ok

\* Whether the text holds "://".
HasSchemeSep(name) ==
    \E k \in 1..(Len(name) - 2) : SubSeq(name, k, k + 2) = <<":", "/", "/">>

\* C10: the name of the span is the method, a space, the scheme and "://"
\* when the URI has a scheme, the authority when it has one, and the path:
\* "GET http://localhost:8080/items" for that request and "GET /items",
\* with no "://", for the URI with neither scheme nor authority.
C10_SpanName ==
    \A i \in Invocations :
        pc[i] = "sent" =>
            LET r == Unwrap(sent[i]).request
                name == OwnSpan(i).name
                method == IF r.method = "GET" THEN <<"G", "E", "T">>
                          ELSE <<"P", "O", "S", "T">>
                scheme == IF r.uri.scheme = None THEN 0
                          ELSE Len(r.uri.scheme[1]) + 3
                authority == IF r.uri.authority = None THEN 0
                             ELSE Len(r.uri.authority[1])
                path == IF r.uri.path = <<>> /\ r.uri.scheme # None
                        THEN <<"/">> ELSE r.uri.path
            IN /\ Len(name) = Len(method) + 1 + scheme + authority + Len(path)
               /\ SubSeq(name, 1, Len(method) + 1) = method \o <<" ">>
               /\ SubSeq(name, Len(name) - Len(path) + 1, Len(name)) = path
               /\ HasSchemeSep(name) <=> r.uri.scheme # None
               /\ r.uri.scheme # None =>
                     SubSeq(name, Len(method) + 2, Len(method) + 1 + scheme)
                        = r.uri.scheme[1] \o <<":", "/", "/">>
               /\ r.uri.authority # None =>
                     SubSeq(name, Len(method) + 2 + scheme,
                            Len(method) + 1 + scheme + authority) = r.uri.authority[1]
               /\ (r.method = "GET" /\ r.uri.scheme = Some(StrHttp)
                   /\ r.uri.authority = Some(StrLocalhost8080) /\ r.uri.path = StrItems)
                     => name = StrNameAbsolute
               /\ (r.method = "GET" /\ r.uri.scheme = None
                   /\ r.uri.authority = None /\ r.uri.path = StrItems)
                     => name = StrNameRelative

\* The span of the request with neither scheme nor authority was started.
C10_Witness ==
    \E i \in Invocations :
        /\ pc[i] = "sent"
        /\ Unwrap(sent[i]).request.uri.scheme = None
        /\ Unwrap(sent[i]).request.uri.authority = None
        /\ OwnSpan(i).name = StrNameRelative

StrUrlAbsolute ==
    <<"h", "t", "t", "p", ":", "/", "/", "l", "o", "c", "a", "l", "h", "o", "s", "t", ":",
      "8", "0", "8", "0", "/", "i", "t", "e", "m", "s">>
StrUrlRelative ==
    <<"/", "i", "t", "e", "m", "s", "?", "i", "d", "=", "7">>
StrPeerAddr ==
    <<"1", "0", ".", "0", ".", "0", ".", "5", ":", "8", "0">>

\* C11: the span is created with kind client and with the attributes
\* http.method (the method token), http.url (the full URI) and http.flavor
\* (the version without "HTTP/": "1.1", "2.0"), in this order, followed by
\* net.peer.ip exactly when the request's peer address is known; its value
\* is the text of that address, which for a socket address is IP and
\* port: "10.0.0.5:80" for the peer 10.0.0.5, port 80.
C11_AttributeList ==
    \A i \in Invocations :
        pc[i] = "sent" =>
            LET r == Unwrap(sent[i]).request
                sp == OwnSpan(i)
                a == sp.attributes
            IN /\ sp.kind = "Client"
               /\ Len(a) = IF r.peer_addr = None THEN 3 ELSE 4
               /\ a[1] = <<"http.method",
                           [type |-> "string",
                            v |-> IF r.method = "GET" THEN <<"G", "E", "T">>
                                  ELSE <<"P", "O", "S", "T">>]>>
               /\ a[2][1] = "http.url" /\ a[2][2].type = "string"
               /\ r.uri = ReqAbsolute.uri => a[2][2].v = StrUrlAbsolute
               /\ r.uri = ReqRelative.uri => a[2][2].v = StrUrlRelative
               /\ r.uri = ReqAuthority.uri => a[2][2].v = StrLocalhost8080
               /\ a[3] = <<"http.flavor",
                           [type |-> "string",
                            v |-> IF r.version = "HTTP_11" THEN <<"1", ".", "1">>
                                  ELSE <<"2", ".", "0">>]>>
               /\ \A k \in 1..3 : a[k][1] # "net.peer.ip"
               /\ r.peer_addr # None =>
                     a[4] = <<"net.peer.ip",
                              [type |-> "string",
                               v |-> r.peer_addr[1].ip \o <<":">>
                                     \o r.peer_addr[1].port]>>
               /\ r.peer_addr = ReqAbsolute.peer_addr => a[4][2].v = StrPeerAddr

\* A span was created for the request whose peer address is known.
C11_Witness ==
    \E i \in Invocations :
        /\ pc[i] = "sent"
        /\ Unwrap(sent[i]).request.peer_addr # None
        /\ Len(OwnSpan(i).attributes) = 4

\* k calls of set, as events of an invocation.
Sets(k) == [j \in 1..k |-> "set"]

Chars(s) == {s[k] : k \in DOMAIN s}

\* The pairs of the propagator that are no header: a space in the key, or a
\* line feed in the value.
InvalidPairs(pairs) ==
    {k \in DOMAIN pairs : " " \in Chars(pairs[k][1]) \/ "\n" \in Chars(pairs[k][2])}

\* The invocation whose injection failed stays as the panic left it: its
\* send was never invoked and nothing was returned.
C12_PanicIsFinal ==
    \A i \in Invocations :
        pc[i] = "panicked" =>
            /\ Count(log[i], "send") = 0
            /\ Count(log[i], "panic") = 1
            /\ log[i][Len(log[i])] = "panic"
            /\ sent[i] = None /\ request[i] = None
            /\ produced[i] = None /\ returned[i] = None

\* A send operation, run with a propagator that writes an invalid pair,
\* stops at the first invalid pair: that set is its last event, and the
\* request is gone without having been handed to the client.  With valid
\* pairs only, every pair is in the headers of the request handed over.
\* Nothing happens to a panicked invocation afterwards.
C12_SetPanics ==
    \A i \in Invocations :
        /\ (pc[i] = "wrapped" /\ pc'[i] # "wrapped") =>
              LET n == Len(spans) + 1
                  child == WithSpan(Unwrap(cx[i]), n, spans'[n])
                  pairs == PropagatorPairs(propagator, child)
                  bad == InvalidPairs(pairs)
              IN IF bad = {}
                 THEN /\ pc'[i] = "sent"
                      /\ \A k \in DOMAIN pairs :
                            pairs[k] \in HeaderEntries(Unwrap(sent'[i]).request)
                 ELSE LET first == CHOOSE k \in bad : \A m \in bad : k <= m
                      IN /\ pc'[i] = "panicked"
                         /\ log'[i] = <<"start">> \o Sets(first) \o <<"panic">>
                         /\ sent'[i] = None
                         /\ request'[i] = None
        /\ pc[i] = "panicked" =>
              /\ pc'[i] = "panicked"
              /\ log'[i] = log[i]
              /\ sent'[i] = None

\* C12: when the propagator calls set with a key that is no header name or
\* a value that is no header value, the send operation fails at that call:
\* the pair is neither skipped nor repaired, no later pair is written, the
\* invocation does not go on, and the wrapped client's send is never
\* invoked for that request.
C12_InvalidPairIsFatal == []C12_PanicIsFinal /\ [][C12_SetPanics]_vars

\* A send operation has panicked on a value that is no header value, after
\* one header was written.
C12_Witness ==
    \E i \in Invocations :
        /\ pc[i] = "panicked"
        /\ propagator = "BrokenValue"
        /\ log[i] = <<"start", "set", "set", "panic">>

\* The invocation's request: with the wrapper, with the client, or gone.
C13_OneShot ==
    \A i \in Invocations :
        /\ Count(log[i], "send") <= 1
        /\ pc[i] \in {"idle", "wrapped", "panicked"} => Count(log[i], "send") = 0
        /\ pc[i] \in {"sent", "closed", "cancelled"} => Count(log[i], "send") = 1
        /\ pc[i] = "wrapped" <=> request[i] # None
        /\ pc[i] = "sent" <=> sent[i] # None
        /\ pc[i] = "closed" =>
              /\ log[i][Len(log[i])] = "return"
              /\ log[i][Len(log[i]) - 2] = "send"
              /\ OwnSpan(i).ended = 1

\* Built is pc wrapped, Sent is pc sent, Closed is pc closed.  Sent is
\* entered only from Built and Closed only from Sent; the send is invoked
\* in the step from Built to Sent and in no other; nothing of a closed
\* invocation changes any more.
C13_Moves ==
    \A i \in Invocations :
        /\ pc'[i] = "wrapped" => pc[i] \in {"idle", "wrapped"}
        /\ pc'[i] = "sent" => pc[i] \in {"wrapped", "sent"}
        /\ pc'[i] = "closed" => pc[i] \in {"sent", "closed"}
        /\ Count(log'[i], "send") # Count(log[i], "send") =>
              pc[i] = "wrapped" /\ pc'[i] = "sent"
        /\ pc[i] \notin {"idle", "wrapped"} => request'[i] = None
        /\ pc[i] = "closed" =>
              /\ pc'[i] = "closed"
              /\ log'[i] = log[i]
              /\ spans'[span[i]] = spans[span[i]]
              /\ sent'[i] = None /\ request'[i] = None
              /\ returned'[i] = returned[i]

\* C13: an invocation moves only from Built to Sent and from Sent to
\* Closed.  The wrapped client's send is invoked at most once, exactly once
\* when the injection succeeded, and not again after a failure; the request
\* is with the wrapper only until it is handed to the client; and after
\* the span was ended and the result returned nothing is done to the span
\* or the request.
C13_Lifecycle == []C13_OneShot /\ [][C13_Moves]_vars

\* An invocation whose one send failed has returned, and the ambient
\* context has changed since.
C13_Witness ==
    \E i \in Invocations :
        /\ Failed(i)
        /\ Count(log[i], "send") = 1
        /\ OwnSpan(i).parent # current

\* The values a request has for a header.
HeaderValues(req, name) == {e[2] : e \in {h \in HeaderEntries(req) : h[1] = name}}

\* The traceparent text of a span: version, trace id, span id, flags.
SpanTraceparent(sp) ==
    <<"0", "0", "-">> \o sp.trace \o <<"-">> \o sp.span_id \o <<"-", "0", "1">>

\* In an invocation's order of events the span's start is the first and
\* every set comes after it.
C14_StartBeforeSets ==
    \A i \in Invocations :
        /\ \A k \in DOMAIN log[i] : log[i][k] = "start" <=> k = 1
        /\ Count(log[i], "set") > 0 => Started(i)
        /\ pc[i] = "sent" =>
              /\ Unwrap(cx[i]).local = span[i]
              /\ Unwrap(cx[i]).span_id = Some(OwnSpan(i).span_id)

\* The step of a send operation: the context the propagator gets is the
\* stored context with the new span in it, so a trace-context propagator
\* writes the ids of the new span, not those of the stored context, and
\* the baggage of the stored context.  The step of the completion: the
\* one span that is recorded on and ended is the span that was started
\* and injected.
C14_ChildInjected ==
    \A i \in Invocations :
        /\ (pc[i] = "wrapped" /\ pc'[i] = "sent") =>
              LET stored == Unwrap(cx[i])
                  n == span'[i]
                  sp == spans'[n]
                  handed == Unwrap(sent'[i]).request
              IN /\ n = Len(spans) + 1
                 /\ Unwrap(cx'[i]) =
                       [stored EXCEPT !.trace = Some(sp.trace),
                                      !.span_id = Some(sp.span_id), !.local = n]
                 /\ propagator = "TraceContext" =>
                       /\ HeaderValues(handed, StrTraceparent) = {SpanTraceparent(sp)}
                       /\ stored.span_id # None =>
                             TraceparentValue(stored)
                                \notin HeaderValues(handed, StrTraceparent)
                       /\ stored.baggage # None =>
                             HeaderValues(handed, StrBaggage) = {stored.baggage[1]}
        /\ (pc[i] = "sent" /\ pc'[i] = "closed") =>
              LET n == span[i]
              IN /\ spans'[n].ended = 1 /\ spans[n].ended = 0
                 /\ Len(spans'[n].ops) = Len(spans[n].ops) + 2
                 /\ \A m \in DOMAIN spans : m # n => spans'[m] = spans[m]
                 /\ propagator = "TraceContext" =>
                       HeaderValues(Unwrap(sent[i]).request, StrTraceparent)
                          = {SpanTraceparent(spans'[n])}

\* C14: the span is started before the injection begins; the context the
\* propagator is given is the stored context with the newly started span
\* attached, never the stored context without it; and the span that the
\* outcome is recorded on and that is ended is that same span.
C14_SpanThenInjection == []C14_StartBeforeSets /\ [][C14_ChildInjected]_vars

\* The request was wrapped with a context that has a remote span, and the
\* traceparent it was handed over with names the span started for it.
C14_Witness ==
    \E i \in Invocations :
        /\ pc[i] = "sent"
        /\ propagator = "TraceContext"
        /\ Unwrap(cx[i]).baggage # None
        /\ HeaderValues(Unwrap(sent[i]).request, StrTraceparent)
              = {SpanTraceparent(OwnSpan(i))}
        /\ SpanTraceparent(OwnSpan(i)) # TraceparentValue(CxA)

\* The step of a send operation starts the span under the context the
\* wrapper has stored.
C15_StartedUnderStored ==
    \A i \in Invocations :
        (pc[i] = "wrapped" /\ pc'[i] # "wrapped") =>
            LET stored == Unwrap(cx[i])
                sp == spans'[span'[i]]
            IN /\ sp.parent = stored
               /\ stored.trace # None => sp.trace = stored.trace[1]

\* C15 as stated: the span of a request wrapped with
\* trace_request_with_context(cx) is started under cx, its parent taken
\* from cx, and the span of a request wrapped with trace_request() under
\* the ambient context that trace_request stored; the ambient context at
\* the time of the send does not decide the parent of a span whose request
\* was wrapped with another context.
C15_ParentIsStoredContext == [][C15_StartedUnderStored]_vars

\* What the code does: the span is started under the context that is
\* ambient when the send operation runs, whatever context was stored.
C15_StartedUnderAmbient ==
    \A i \in Invocations :
        (pc[i] = "wrapped" /\ pc'[i] # "wrapped") =>
            /\ spans'[span'[i]].parent = current
            /\ spans'[span'[i]].trace =
                  IF current.trace # None THEN current.trace[1]
                  ELSE NewTraceId(span'[i])

C15_ParentIsAmbientAtSend == [][C15_StartedUnderAmbient]_vars

\* C16: nothing is done to a span after its end: in the calls made on any
\* span, every set_attribute and every set_status comes before the end,
\* the end is the last call, and it is made at most once.
C16_NothingAfterEnd ==
    \A n \in DOMAIN spans :
        LET ops == spans[n].ops
        IN /\ Count(ops, "end") <= 1
           /\ spans[n].ended = Count(ops, "end")
           /\ \A k \in DOMAIN ops : ops[k] = "end" => k = Len(ops)
           /\ \A k, m \in DOMAIN ops :
                 (ops[k] \in {"set_attribute", "set_status"} /\ ops[m] = "end")
                    => k < m

\* A span was ended after its status code was recorded.
C16_Witness ==
    \E n \in DOMAIN spans :
        /\ spans[n].ops = <<"set_attribute", "end">>
        /\ spans[n].ended = 1

\* The step of a send operation, from the request the wrapper held to the
\* request the client is handed: only headers differ, and only those of
\* the names the propagator wrote.
C17_OnlyHeadersWritten ==
    \A i \in Invocations :
        (pc[i] = "wrapped" /\ pc'[i] = "sent") =>
            LET before == Unwrap(request[i])
                after == Unwrap(sent'[i]).request
                sp == spans'[span'[i]]
                pairs == PropagatorPairs(propagator, Unwrap(cx'[i]))
                written == {pairs[k][1] : k \in DOMAIN pairs}
                Kept(req) == SelectSeq(req.headers, LAMBDA e : e[1] \notin written)
            IN /\ after.method = before.method
               /\ after.uri = before.uri
               /\ after.version = before.version
               /\ after.peer_addr = before.peer_addr
               /\ [after EXCEPT !.headers = before.headers] = before
               /\ Kept(after) = Kept(before)
               /\ sp.name = SpanName(after)
               /\ sp.attributes = Attributes(after)

\* C17: the injection changes nothing of the request but its headers:
\* method, URI, version and peer address are after it what they were
\* before, so the name and the attributes of the span describe the request
\* the wrapped client is handed; and every header whose name the
\* propagator does not write keeps its value.
C17_InjectionFrame == [][C17_OnlyHeadersWritten]_vars

\* The request of the caller who had set traceparent and accept is with
\* the client: traceparent was overwritten, accept is as it was.
C17_Witness ==
    \E i \in Invocations :
        /\ pc[i] = "sent"
        /\ propagator = "TraceContext"
        /\ HeaderValues(Unwrap(sent[i]).request, StrAccept) = {StrAcceptValue}
        /\ StrOldValue \notin HeaderValues(Unwrap(sent[i]).request, StrTraceparent)
        /\ Unwrap(sent[i]).request.uri = ReqRelative.uri

StrTraceparentCap ==
    <<"T", "r", "a", "c", "e", "p", "a", "r", "e", "n", "t">>

\* Keys and values set is called with: names in lower case and with a
\* capital, a name the caller uses too, and an empty value.
SetKeys == {StrTraceparent, StrTraceparentCap, StrAccept, StrBaggage}
SetValues == {StrOldValue, StrAcceptValue, <<>>}

\* The header name a key stands for: names do not depend on case.
NameOf(key) == IF key = StrTraceparentCap THEN StrTraceparent ELSE key

\* The entries a request has for a header name.
EntriesOf(req, name) == {k \in DOMAIN req.headers : req.headers[k][1] = name}

\* The same request with one more value of a header it may already have.
WithSecondValue(r) ==
    [r EXCEPT !.headers = Append(@, <<StrTraceparent, StrBaggageValue>>)]

\* The requests the wrapper holds or the client was handed.
RequestsInHand ==
    {Unwrap(request[i]) : i \in {j \in Invocations : request[j] # None}}
    \cup {Unwrap(sent[i]).request : i \in {j \in Invocations : sent[j] # None}}

\* set(key, value) on req, then the same set again, or a set of last.
SetOverwrites(req, key, value, last) ==
    LET once == ActixClientCarrier_set(req, key, value)
        again == ActixClientCarrier_set(once.request, key, value)
        other == ActixClientCarrier_set(once.request, key, last)
    IN /\ ~once.panicked /\ ~again.panicked /\ ~other.panicked
       /\ Cardinality(EntriesOf(once.request, NameOf(key))) = 1
       /\ HeaderValues(once.request, NameOf(key)) = {value}
       /\ key # NameOf(key) => EntriesOf(once.request, key) = {}
       /\ again.request = once.request
       /\ Cardinality(EntriesOf(other.request, NameOf(key))) = 1
       /\ HeaderValues(other.request, NameOf(key)) = {last}

\* Every request a caller builds, as it is and with a header of two
\* values, under every key and every two values.
SetOverwritesCallerRequests ==
    \A req \in Requests \cup {WithSecondValue(r) : r \in Requests} :
        \A key \in SetKeys :
            \A value, last \in SetValues : SetOverwrites(req, key, value, last)

\* C18: set(key, value) with a valid pair writes or overwrites.  After it
\* the request has exactly one entry for the header, with that value,
\* whatever entries the header had before, a caller's among them; a second
\* set of the same key leaves only the second value; and the same set
\* made twice leaves the headers as the first left them.  This holds for
\* the requests callers build (which does not depend on the state, and is
\* evaluated before any request is wrapped) and for every request in
\* hand, before its injection or after it.
C18_SetOverwrites ==
    /\ (\A i \in Invocations : pc[i] = "idle") => SetOverwritesCallerRequests
    /\ \A req \in RequestsInHand :
          \A key \in {StrTraceparent, StrTraceparentCap} :
              SetOverwrites(req, key, StrOldValue, <<>>)

\* The caller had set a traceparent; the request is with the client after
\* the propagator's set of traceparent, with the propagator's value alone.
C18_Witness ==
    \E i \in Invocations :
        /\ pc[i] = "sent"
        /\ Unwrap(sent[i]).request.uri = ReqRelative.uri
        /\ Count(log[i], "set") >= 1
        /\ Cardinality(EntriesOf(Unwrap(sent[i]).request, StrTraceparent)) = 1
        /\ HeaderValues(Unwrap(sent[i]).request, StrTraceparent)
              = {SpanTraceparent(OwnSpan(i))}

SendOperations == {"send", "send_body", "send_form", "send_json", "send_stream"}

\* What a send operation does to an invocation, told without naming the
\* operation: from the request, the stored and the ambient context one
\* span is started with the request's name, kind client and the request's
\* attributes; every pair of the propagator is set; the send is invoked
\* once, with the request as the injection left it.  From the outcome one
\* record is made, the span is ended and the result is returned.
C19_SameSteps ==
    \A i \in Invocations :
        /\ (pc[i] = "wrapped" /\ pc'[i] = "sent") =>
              LET req == Unwrap(request[i])
                  n == Len(spans) + 1
                  pairs == PropagatorPairs(propagator, Unwrap(cx'[i]))
              IN /\ Unwrap(sent'[i]).f \in SendOperations
                 /\ Len(spans') = n /\ span'[i] = n
                 /\ spans'[n].name = SpanName(req)
                 /\ spans'[n].kind = "Client"
                 /\ spans'[n].attributes = Attributes(req)
                 /\ spans'[n].ops = <<>>
                 /\ log'[i] = <<"start">> \o [k \in 1..Len(pairs) |-> "set"]
                              \o <<"send">>
                 /\ \A k \in DOMAIN pairs :
                       pairs[k] \in HeaderEntries(Unwrap(sent'[i]).request)
                 /\ Len(Unwrap(sent'[i]).request.headers)
                       = Cardinality({e[1] : e \in HeaderEntries(req)}
                                     \cup {pairs[k][1] : k \in DOMAIN pairs})
        /\ (pc[i] = "sent" /\ pc'[i] = "closed") =>
              LET res == Unwrap(returned'[i])
              IN /\ log'[i] = log[i] \o <<IF res.ok THEN "record_response"
                                                  ELSE "record_err", "return">>
                 /\ spans'[span[i]].ops =
                       <<IF res.ok THEN "set_attribute" ELSE "set_status", "end">>

\* Whichever send operation an invocation ran, its events are the start,
\* the sets, one send, and after the completion one record and the return.
C19_SameEvents ==
    \A i \in Invocations :
        pc[i] \in {"sent", "closed", "cancelled"} =>
            /\ Count(log[i], "start") = 1 /\ Count(log[i], "send") = 1
            /\ Count(log[i], "record_response") + Count(log[i], "record_err")
                  = IF pc[i] = "closed" THEN 1 ELSE 0
            /\ pc[i] = "sent" => Unwrap(sent[i]).f \in SendOperations

\* C19: send, send_body, send_form, send_json and send_stream follow one
\* lifecycle.  For the same request, context and outcome each of them
\* gives the same events: the span's start with the same name, kind and
\* attributes, the injection, one send, one outcome record and the span's
\* end; they differ only in which send of the wrapped client takes the
\* body.
C19_OneLifecycle == []C19_SameEvents /\ [][C19_SameSteps]_vars

\* A request went to the client through send_stream after three sets.
C19_Witness ==
    \E i \in Invocations :
        /\ pc[i] = "sent"
        /\ Unwrap(sent[i]).f = "send_stream"
        /\ log[i] = <<"start", "set", "set", "set", "send">>

\* The step of a wrapping: the request and a context are stored, and the
\* span backend, the invocation's events and what the client holds are as
\* before.
C20_WrapStep ==
    \A i \in Invocations :
        (pc[i] = "idle" /\ pc'[i] = "wrapped") =>
            /\ spans' = spans
            /\ span' = span /\ log' = log /\ sent' = sent
            /\ \E req \in Requests : request'[i] = Some(req)
            /\ \E c \in Contexts : cx'[i] = Some(c)

\* Until a send operation has run, the invocation has started no span,
\* has called no set and no send, and its request is as the caller built
\* it; the backend holds a span only for invocations whose send operation
\* has run.
C20_NothingBeforeSend ==
    /\ \A i \in Invocations :
          pc[i] \in {"idle", "wrapped"} =>
              /\ span[i] = 0
              /\ log[i] = <<>>
              /\ sent[i] = None
              /\ pc[i] = "wrapped" => Unwrap(request[i]) \in Requests
    /\ Len(spans) = Cardinality({i \in Invocations : Count(log[i], "start") = 1})
    /\ \A i \in Invocations : Started(i) <=> Count(log[i], "start") = 1

\* C20: wrapping a request, by trace_request or by
\* trace_request_with_context, only stores the context and the request: no
\* span is started, no header written and no send invoked.  That happens
\* once a send operation runs; a request that is wrapped and not sent
\* leaves no span and has its headers unchanged.
C20_WrappingOnlyStores == []C20_NothingBeforeSend /\ [][C20_WrapStep]_vars

\* A request with headers is wrapped with a context that has a span and
\* baggage, under a propagator that writes both, and no span exists.
C20_Witness ==
    \E i \in Invocations :
        /\ pc[i] = "wrapped"
        /\ propagator = "TraceContext"
        /\ cx[i] = Some(CxA)
        /\ request[i] = Some(ReqRelative)
        /\ spans = <<>>

=============================================================================
